---- MODULE Spec2Model ----
(***************************************************************************)
(* Model of src/main.py: the file organizer and duplicate remover.         *)
(*                                                                         *)
(* A path is a record [dir, name]: dir is the sequence of directory        *)
(* segments below the root, name is [base, nums, ext] and stands for the   *)
(* file name  base ("_" n for each n of nums) ("." ext when ext # "").     *)
(* The filesystem is a function from the paths of the existing regular     *)
(* files to [content, mtime, readable], together with the set of existing  *)
(* directories.  One run of main() is the sequence of steps                *)
(* organize -> duplicates -> remove -> report; an exception that leaves    *)
(* organize_files ends the run at pc = "crashed".                          *)
(***************************************************************************)
EXTENDS Integers, Sequences, FiniteSets, TLC

VARIABLES fs, dirs, args, pc, files, ops, duplicates, removed, report, fs0, dirs0

vars == <<fs, dirs, args, pc, files, ops, duplicates, removed, report, fs0, dirs0>>

(* ------------------------------ bounds --------------------------------- *)

\* largest number of files in the tree the run starts from
MaxFiles == 3

(* --------------------------- strings, names ---------------------------- *)

\* str.lower() on the strings that occur as extensions and folder names
Lower(s) ==
    CASE s = "TXT" -> "txt"
      [] s = "Txt" -> "txt"
      [] OTHER -> s

\* p.suffix.lstrip('.') : the extension without its dot, "" when there is none
Suffix(p) == p.name.ext

\* the category with the test for a missing extension inverted
Category_inverted(p) == IF Lower(Suffix(p)) # "" THEN "no_ext" ELSE Lower(Suffix(p))

\* p.suffix.lower().lstrip('.') or 'no_ext'
Category(p) == IF Lower(Suffix(p)) = "" THEN "no_ext" ELSE Lower(Suffix(p))

\* the numbered name with the counter one ahead
NumberedName_ahead(f, counter) ==
    [base |-> f.name.base, nums |-> Append(f.name.nums, counter + 1), ext |-> f.name.ext]

\* f.stem + f"_{counter}" + f.suffix
NumberedName(f, counter) ==
    [base |-> f.name.base, nums |-> Append(f.name.nums, counter), ext |-> f.name.ext]

\* rel_path.parts of f.relative_to(root)
Parts(p) == Len(p.dir) + 1

Join(folder, name) == [dir |-> folder, name |-> name]

\* the directories Path.mkdir(parents=True) makes sure exist
Prefixes(d) == {SubSeq(d, 1, i) : i \in 1..Len(d)}

IsPrefix(d, e) == Len(d) <= Len(e) /\ SubSeq(e, 1, Len(d)) = d

(* ------------------------------ utilities ------------------------------ *)

RECURSIVE HashBytes(_, _, _)
HashBytes(bytes, i, h) ==
    IF i > Len(bytes) THEN h ELSE HashBytes(bytes, i + 1, h * 3 + bytes[i])

\* compute_hash: the digest of the bytes of the file, fed in order.  The
\* encoding is injective on the contents of the model, as SHA-256 is taken
\* to be on real files.
compute_hash(fsys, path) == HashBytes(fsys[path].content, 1, 0)

\* open(path, "rb") succeeds; compute_hash raises PermissionError otherwise
Readable(fsys, path) == fsys[path].readable

\* os.path.getsize / stat().st_size
getsize(fsys, path) == Len(fsys[path].content)

\* is_same_file with the comparison of the digests inverted
is_same_file_inverted(fsys, a, b) ==
    IF getsize(fsys, a) # getsize(fsys, b) THEN FALSE
    ELSE compute_hash(fsys, a) # compute_hash(fsys, b)

is_same_file(fsys, a, b) ==
    IF getsize(fsys, a) # getsize(fsys, b) THEN FALSE
    ELSE compute_hash(fsys, a) = compute_hash(fsys, b)

\* is_same_file raises: the sizes agree and one of the files cannot be read
is_same_file_raises(fsys, a, b) ==
    getsize(fsys, a) = getsize(fsys, b) /\ (~Readable(fsys, a) \/ ~Readable(fsys, b))

\* safe_mkdir
safe_mkdir(ds, path) == ds \cup Prefixes(path)

(* -------------------------------- scan --------------------------------- *)

\* all enumerations of the set S without repetition
RECURSIVE Enumerations(_)
Enumerations(S) ==
    IF S = {} THEN {<<>>}
    ELSE UNION {{<<x>> \o s : s \in Enumerations(S \ {x})} : x \in S}

\* os.walk is top-down: the files of a directory come before those of its
\* subdirectories and a subtree is listed without interruption; the order of
\* the entries of one directory is whatever the filesystem yields.
IsWalkOrder(s) ==
    /\ \A i, j \in 1..Len(s) :
          (i < j) => ~(s[j].dir # s[i].dir /\ IsPrefix(s[j].dir, s[i].dir))
    /\ \A x \in 1..Len(s) : \A d \in Prefixes(s[x].dir) :
          \A i, j, k \in 1..Len(s) :
             (i < j /\ j < k /\ IsPrefix(d, s[i].dir) /\ IsPrefix(d, s[k].dir))
                => IsPrefix(d, s[j].dir)

\* the directories in the order os.walk visits them, the root first
RECURSIVE WalkDirs(_, _, _)
WalkDirs(s, i, seen) ==
    IF i > Len(s) THEN seen
    ELSE WalkDirs(s, i + 1,
                  IF \E n \in 1..Len(seen) : seen[n] = s[i].dir THEN seen
                  ELSE Append(seen, s[i].dir))

\* the listing that visits the files in the order s: a sequence of
\* [dirpath, filenames] entries
Listing(s) ==
    LET ds == WalkDirs(s, 1, << <<>> >>)
    IN [n \in 1..Len(ds) |->
          [dirpath |-> ds[n], filenames |-> SelectSeq(s, LAMBDA p : p.dir = ds[n])]]

\* os.walk(root): the possible listings of the tree
os_walk(fsys) == {Listing(s) : s \in {e \in Enumerations(DOMAIN fsys) : IsWalkOrder(e)}}

\* ig in dirpath, on the names that occur: substring of a directory segment
IsSubstring(ig, seg) ==
    \/ ig = seg
    \/ ig = "sub" /\ seg = "subdir"

\* any(ig in dirpath for ig in ignore_dirs); the path of the root itself
\* contains none of the patterns
Ignored(dirpath, ignore_dirs) ==
    \E ig \in ignore_dirs : \E n \in 1..Len(dirpath) : IsSubstring(ig, dirpath[n])

RECURSIVE ScanLoop(_, _, _, _, _)
ScanLoop(walk, i, recursive, ignore_dirs, acc) ==
    IF i > Len(walk) THEN acc
    ELSE IF Ignored(walk[i].dirpath, ignore_dirs)
         THEN ScanLoop(walk, i + 1, recursive, ignore_dirs, acc)
         ELSE IF ~recursive THEN acc \o walk[i].filenames
              ELSE ScanLoop(walk, i + 1, recursive, ignore_dirs, acc \o walk[i].filenames)

scan_files(walk, recursive, ignore_dirs) == ScanLoop(walk, 1, recursive, ignore_dirs, <<>>)

(* ------------------------------ organize ------------------------------- *)

\* the destination taken as it is unless it holds the content of f
ResolveDest_overwrite(fsys, folder, f, dest, counter) ==
    IF dest \in DOMAIN fsys /\ is_same_file_raises(fsys, dest, f)
    THEN [same |-> FALSE, dest |-> dest, raised |-> TRUE]
    ELSE IF dest \in DOMAIN fsys /\ is_same_file(fsys, dest, f)
         THEN [same |-> TRUE, dest |-> dest, raised |-> FALSE]
         ELSE [same |-> FALSE, dest |-> dest, raised |-> FALSE]

\* the while dest.exists() loop: the first candidate that does not exist
\* (free) or holds the content of f (same), unless the comparison raises
RECURSIVE ResolveDest(_, _, _, _, _)
ResolveDest(fsys, folder, f, dest, counter) ==
    IF dest \in DOMAIN fsys
    THEN IF is_same_file_raises(fsys, dest, f)
         THEN [same |-> FALSE, dest |-> dest, raised |-> TRUE]
         ELSE IF is_same_file(fsys, dest, f)
              THEN [same |-> TRUE, dest |-> dest, raised |-> FALSE]
              ELSE ResolveDest(fsys, folder, f, Join(folder, NumberedName(f, counter)),
                               counter + 1)
    ELSE [same |-> FALSE, dest |-> dest, raised |-> FALSE]

\* shutil.move(src, dest) onto a path that does not exist
shutil_move(fsys, src, dest) ==
    [p \in (DOMAIN fsys \ {src}) \cup {dest} |-> IF p = dest THEN fsys[src] ELSE fsys[p]]

\* shutil.copy2(src, dest): content and modification time
shutil_copy2(fsys, src, dest) ==
    [p \in DOMAIN fsys \cup {dest} |-> IF p = dest THEN fsys[src] ELSE fsys[p]]

\* the test that skips a file already below its extension folder
AlreadyOrganized(f) == Parts(f) >= 2 /\ Lower(f.dir[1]) = Lower(Suffix(f))

\* one iteration of the loop of organize_files over st = [fs, dirs, ops,
\* raised]; shutil.copy2 raises when the source cannot be read, shutil.move
\* renames and does not read
OrganizeFile(st, f, target_dir, dry_run, move) ==
    IF AlreadyOrganized(f) THEN st
    ELSE LET folder == Append(target_dir, Category(f))
             ds == safe_mkdir(st.dirs, folder)
             r == ResolveDest(st.fs, folder, f, Join(folder, f.name), 1)
         IN IF r.raised
            THEN [fs |-> st.fs, dirs |-> ds, ops |-> st.ops, raised |-> TRUE]
            ELSE IF r.same
            THEN [fs |-> st.fs, dirs |-> ds,
                  ops |-> Append(st.ops, [action |-> "skip_same", src |-> f, dest |-> r.dest]),
                  raised |-> FALSE]
            ELSE [fs |-> IF dry_run THEN st.fs
                         ELSE IF move THEN shutil_move(st.fs, f, r.dest)
                              ELSE IF Readable(st.fs, f) THEN shutil_copy2(st.fs, f, r.dest)
                                   ELSE st.fs,
                  dirs |-> ds,
                  ops |-> Append(st.ops, [action |-> IF ~move THEN "copy" ELSE "move",
                                           src |-> f, dest |-> r.dest]),
                  raised |-> ~dry_run /\ ~move /\ ~Readable(st.fs, f)]

RECURSIVE OrganizeLoop(_, _, _, _, _, _)
OrganizeLoop(st, fl, i, target_dir, dry_run, move) ==
    IF i > Len(fl) \/ st.raised THEN st
    ELSE OrganizeLoop(OrganizeFile(st, fl[i], target_dir, dry_run, move),
                      fl, i + 1, target_dir, dry_run, move)

\* organize_files on the scanned list fl: the final [fs, dirs, ops, raised]
organize_files(fsys, ds, fl, target_dir, dry_run, move) ==
    OrganizeLoop([fs |-> fsys, dirs |-> ds, ops |-> <<>>, raised |-> FALSE],
                 fl, 1, target_dir, dry_run, move)

(* ----------------------------- duplicates ------------------------------ *)

\* defaultdict(list)[k].append(p): a dict keeps its keys in insertion order
DictAppend(d, k, p) ==
    IF \E n \in 1..Len(d) : d[n].key = k
    THEN [n \in 1..Len(d) |->
            IF d[n].key = k THEN [key |-> k, items |-> Append(d[n].items, p)] ELSE d[n]]
    ELSE Append(d, [key |-> k, items |-> <<p>>])

RECURSIVE SizeMap(_, _, _, _)
SizeMap(fsys, fl, i, d) ==
    IF i > Len(fl) THEN d
    ELSE SizeMap(fsys, fl, i + 1, DictAppend(d, getsize(fsys, fl[i]), fl[i]))

\* a file whose hashing raises is passed over
RECURSIVE HashMap(_, _, _, _)
HashMap(fsys, group, i, d) ==
    IF i > Len(group) THEN d
    ELSE HashMap(fsys, group, i + 1,
                 IF Readable(fsys, group[i])
                 THEN DictAppend(d, compute_hash(fsys, group[i]), group[i])
                 ELSE d)

\* the groups emitted from one entry on
RECURSIVE EmitGroups_single(_, _, _)
EmitGroups_single(hm, i, dups) ==
    IF i > Len(hm) THEN dups
    ELSE EmitGroups_single(hm, i + 1,
                           IF Len(hm[i].items) >= 1
                           THEN Append(dups, [hash |-> hm[i].key, paths |-> hm[i].items])
                           ELSE dups)

\* for h, plist in hash_map.items(): if len(plist) > 1: duplicates.append((h, plist))
RECURSIVE EmitGroups(_, _, _)
EmitGroups(hm, i, dups) ==
    IF i > Len(hm) THEN dups
    ELSE EmitGroups(hm, i + 1,
                    IF Len(hm[i].items) > 1
                    THEN Append(dups, [hash |-> hm[i].key, paths |-> hm[i].items])
                    ELSE dups)

\* for size, group in size_map.items(): groups of fewer than 2 are not hashed
RECURSIVE DuplicatesLoop(_, _, _, _)
DuplicatesLoop(fsys, sm, i, dups) ==
    IF i > Len(sm) THEN dups
    ELSE DuplicatesLoop(fsys, sm, i + 1,
                        IF Len(sm[i].items) < 2 THEN dups
                        ELSE EmitGroups(HashMap(fsys, sm[i].items, 1, <<>>), 1, dups))

\* find_duplicates on the scanned list fl: a sequence of [hash, paths]
find_duplicates(fsys, fl) == DuplicatesLoop(fsys, SizeMap(fsys, fl, 1, <<>>), 1, <<>>)

(* ------------------------------- removal ------------------------------- *)

\* sorted(plist, key=lambda p: p.stat().st_mtime): stable, ascending
RECURSIVE Insert(_, _, _)
Insert(fsys, sorted, p) ==
    IF sorted = <<>> THEN <<p>>
    ELSE IF fsys[sorted[Len(sorted)]].mtime <= fsys[p].mtime THEN Append(sorted, p)
         ELSE Append(Insert(fsys, SubSeq(sorted, 1, Len(sorted) - 1), p), sorted[Len(sorted)])

RECURSIVE SortByMtime(_, _, _, _)
SortByMtime(fsys, plist, i, sorted) ==
    IF i > Len(plist) THEN sorted
    ELSE SortByMtime(fsys, plist, i + 1, Insert(fsys, sorted, plist[i]))

\* the keeper with every rule but first keeping the last entry
Keeper_last(sorted_list, keep) ==
    IF keep = "first" THEN sorted_list[1] ELSE sorted_list[Len(sorted_list)]

\* the keeper of a sorted group under the rule keep
Keeper(sorted_list, keep) ==
    IF keep = "first" THEN sorted_list[1]
    ELSE IF keep = "latest" THEN sorted_list[Len(sorted_list)]
         ELSE sorted_list[1]

ToRemove(sorted_list, keep) ==
    IF keep = "first" THEN SubSeq(sorted_list, 2, Len(sorted_list))
    ELSE IF keep = "latest" THEN SubSeq(sorted_list, 1, Len(sorted_list) - 1)
         ELSE SubSeq(sorted_list, 2, Len(sorted_list))

\* os.remove(p)
os_remove(fsys, p) == [q \in DOMAIN fsys \ {p} |-> fsys[q]]

\* for p in to_remove: over st = [fs, removed]
RECURSIVE RemoveLoop(_, _, _, _, _, _)
RemoveLoop(st, h, to_remove, keeper, i, dry_run) ==
    IF i > Len(to_remove) THEN st
    ELSE RemoveLoop([fs |-> IF dry_run THEN st.fs ELSE os_remove(st.fs, to_remove[i]),
                     removed |-> Append(st.removed,
                                        [hash |-> h, removed |-> to_remove[i], kept |-> keeper])],
                    h, to_remove, keeper, i + 1, dry_run)

RECURSIVE GroupsLoop(_, _, _, _, _)
GroupsLoop(st, dups, i, keep, dry_run) ==
    IF i > Len(dups) THEN st
    ELSE LET sorted_list == SortByMtime(st.fs, dups[i].paths, 1, <<>>)
         IN GroupsLoop(RemoveLoop(st, dups[i].hash, ToRemove(sorted_list, keep),
                                  Keeper(sorted_list, keep), 1, dry_run),
                       dups, i + 1, keep, dry_run)

\* remove_duplicates: the final [fs, removed]
remove_duplicates(fsys, dups, keep, dry_run) ==
    GroupsLoop([fs |-> fsys, removed |-> <<>>], dups, 1, keep, dry_run)

\* generate_report: the logical shape of the report
generate_report(o, dups, rem) ==
    [operations |-> o, duplicates_found |-> dups, removed |-> rem]

(* ------------------------------ the inputs ----------------------------- *)

Contents == {<<1>>, <<2>>, <<1, 1>>}

File(d, b, n, e) == [dir |-> d, name |-> [base |-> b, nums |-> n, ext |-> e]]

\* the paths the trees of the organize runs draw their files from
Universe ==
    { File(<<>>, "a", <<>>, "txt"),
      File(<<"subdir">>, "a", <<>>, "txt"),
      File(<<"txt">>, "a", <<>>, "txt"),
      File(<<"txt">>, "a", <<1>>, "txt"),
      File(<<>>, "a", <<>>, "TXT"),
      File(<<>>, "README", <<>>, ""),
      File(<<"no_ext">>, "README", <<>>, "") }

\* the paths the trees of the removal runs draw their files from
RemovalUniverse ==
    { File(<<>>, "a", <<>>, "txt"),
      File(<<>>, "README", <<>>, ""),
      File(<<"subdir">>, "a", <<>>, "txt"),
      File(<<"txt">>, "a", <<>>, "txt") }

\* the paths the trees of the detection runs draw their files from
DetectionUniverse == RemovalUniverse \cup {File(<<>>, "a", <<>>, "TXT")}

\* the paths the trees of the runs under arbitrary arguments draw their files from
SmallUniverse ==
    { File(<<>>, "a", <<>>, "txt"),
      File(<<"subdir">>, "a", <<>>, "txt"),
      File(<<"no_ext">>, "README", <<>>, "") }

\* the modification times of the files S: when timed, every way of ordering
\* them with ties (times 1..n without gaps), else one time for all
Mtimes(S, timed) ==
    IF timed
    THEN {m \in [S -> 1..Cardinality(S)] :
             {m[p] : p \in S} = 1..Cardinality({m[p] : p \in S})}
    ELSE {[p \in S |-> 1]}

\* the trees of at most MaxFiles files at paths of U; R holds the values the
\* readable flag of a file may take
Trees(U, timed, R) ==
    UNION {{[p \in S |-> [content |-> c[p], mtime |-> m[p], readable |-> r[p]]] :
               c \in [S -> Contents], m \in Mtimes(S, timed), r \in [S -> R]} :
              S \in {X \in SUBSET U : Cardinality(X) <= MaxFiles}}

\* the fixture of the scenario: a.txt and b.txt hold "X", c.txt holds "Y"
Fixture ==
    [p \in {File(<<>>, "a", <<>>, "txt"), File(<<>>, "b", <<>>, "txt"),
            File(<<>>, "c", <<>>, "txt")} |->
        [content |-> IF p.name.base = "c" THEN <<2>> ELSE <<1>>, mtime |-> 1,
         readable |-> TRUE]]

DirsOf(fsys) == UNION {Prefixes(p.dir) : p \in DOMAIN fsys}

KeepRules == {"first", "latest", "largest"}

\* what parse_args can return
ArgSpace ==
    [organize : BOOLEAN, move : BOOLEAN, dry_run : BOOLEAN, duplicates : BOOLEAN,
     remove_duplicates : BOOLEAN, keep : {"first", "latest"},
     ignore : {{}, {"sub"}}, recursive : BOOLEAN]

(* ------------------------------- main() -------------------------------- *)

\* the state main() starts from, on a tree of T with the arguments of A
InitWith(T, A) ==
    /\ fs \in T
    /\ dirs = DirsOf(fs)
    /\ args \in A
    /\ pc = "organize"
    /\ files = <<>>
    /\ ops = <<>>
    /\ duplicates = <<>>
    /\ removed = <<>>
    /\ report = generate_report(<<>>, <<>>, <<>>)
    /\ fs0 = fs
    /\ dirs0 = dirs

\* runs under any arguments
Init == InitWith(Trees(SmallUniverse, FALSE, BOOLEAN), ArgSpace)

\* runs with --organize only, nothing ignored, every file readable
InitOrganize ==
    InitWith(Trees(Universe, FALSE, {TRUE}) \cup {Fixture},
             {a \in ArgSpace : /\ a.organize /\ ~a.duplicates /\ ~a.remove_duplicates
                               /\ a.keep = "first" /\ a.recursive /\ a.ignore = {}})

\* runs with --duplicates only
InitDuplicates ==
    InitWith(Trees(DetectionUniverse, FALSE, BOOLEAN),
             {a \in ArgSpace : /\ ~a.organize /\ ~a.move /\ a.duplicates
                               /\ ~a.remove_duplicates /\ ~a.dry_run
                               /\ a.keep = "first" /\ a.recursive})

\* runs with --remove-duplicates, without --organize, every file readable
InitRemove ==
    InitWith(Trees(RemovalUniverse, TRUE, {TRUE}),
             {a \in ArgSpace : /\ ~a.organize /\ ~a.move /\ a.remove_duplicates
                               /\ a.recursive /\ a.ignore = {}})

\* if args.organize: ops = organize_files(root, target_dir=root, ...); an
\* exception ends the run, ops is never assigned
MainOrganize ==
    /\ pc = "organize"
    /\ IF args.organize
       THEN \E walk \in os_walk(fs) :
              LET fl == scan_files(walk, TRUE, args.ignore)
                  r == organize_files(fs, dirs, fl, <<>>, args.dry_run, args.move)
              IN /\ files' = fl
                 /\ fs' = r.fs
                 /\ dirs' = r.dirs
                 /\ ops' = IF r.raised THEN ops ELSE r.ops
                 /\ pc' = IF r.raised THEN "crashed" ELSE "duplicates"
       ELSE /\ pc' = "duplicates"
            /\ UNCHANGED <<fs, dirs, files, ops>>
    /\ UNCHANGED <<args, duplicates, removed, report, fs0, dirs0>>

\* if args.duplicates: duplicates = find_duplicates(root, ...)
MainDuplicates ==
    /\ pc = "duplicates"
    /\ pc' = "remove"
    /\ IF args.duplicates
       THEN \E walk \in os_walk(fs) :
              duplicates' = find_duplicates(fs, scan_files(walk, TRUE, args.ignore))
       ELSE UNCHANGED duplicates
    /\ UNCHANGED <<fs, dirs, args, files, ops, removed, report, fs0, dirs0>>

\* if args.remove_duplicates: find the duplicates unless already found, remove
MainRemove ==
    /\ pc = "remove"
    /\ pc' = "report"
    /\ IF args.remove_duplicates
       THEN \E dups \in IF duplicates = <<>>
                        THEN {find_duplicates(fs, scan_files(walk, TRUE, args.ignore)) :
                                 walk \in os_walk(fs)}
                        ELSE {duplicates} :
              LET r == remove_duplicates(fs, dups, args.keep, args.dry_run)
              IN /\ duplicates' = dups
                 /\ removed' = r.removed
                 /\ fs' = r.fs
       ELSE UNCHANGED <<fs, duplicates, removed>>
    /\ UNCHANGED <<dirs, args, files, ops, report, fs0, dirs0>>

\* report = generate_report(ops, duplicates, removed, ...)
MainReport ==
    /\ pc = "report"
    /\ pc' = "done"
    /\ report' = generate_report(ops, duplicates, removed)
    /\ UNCHANGED <<fs, dirs, args, files, ops, duplicates, removed, fs0, dirs0>>

Next == MainOrganize \/ MainDuplicates \/ MainRemove \/ MainReport

Spec == Init /\ [][Next]_vars

SpecOrganize == InitOrganize /\ [][Next]_vars

SpecDuplicates == InitDuplicates /\ [][Next]_vars

SpecRemove == InitRemove /\ [][Next]_vars

(* ------------------------------ properties ----------------------------- *)

Range(s) == {s[i] : i \in 1..Len(s)}

\* the state of organize_files before it handles the i-th scanned file
Before(i) ==
    OrganizeLoop([fs |-> fs0, dirs |-> dirs0, ops |-> <<>>, raised |-> FALSE],
                 SubSeq(files, 1, i - 1), 1, <<>>, args.dry_run, args.move)

\* organize_files has returned its records and nothing else has run yet
Organized == pc = "duplicates" /\ args.organize

ContentsOf(fsys) == {fsys[p].content : p \in DOMAIN fsys}

\* C1: with dry_run set, organize and remove_duplicates leave the filesystem
\* as it was before the call: no file and no directory is created, moved,
\* copied or deleted.
C1_DryRunLeavesFilesystem == args.dry_run => (fs = fs0 /\ dirs = dirs0)

\* C2: on every snapshot the records returned with dry_run set equal those
\* returned without it: organize returns the same sequence of actions and
\* remove_duplicates the same sequence of removal records.
C2_DryRunSameRecords ==
    pc = "organize" =>
      \A walk \in os_walk(fs) :
        LET fl == scan_files(walk, TRUE, args.ignore)
            dups == find_duplicates(fs, fl)
        IN /\ \A move \in BOOLEAN :
                LET dry == organize_files(fs, dirs, fl, <<>>, TRUE, move)
                    real == organize_files(fs, dirs, fl, <<>>, FALSE, move)
                IN (~dry.raised /\ ~real.raised) => dry.ops = real.ops
           /\ \A keep \in KeepRules :
                remove_duplicates(fs, dups, keep, TRUE).removed
                  = remove_duplicates(fs, dups, keep, FALSE).removed

\* the files a scan of the tree fsys yields
Scanned(fsys) == {p \in DOMAIN fsys : ~Ignored(p.dir, args.ignore)}

\* find_duplicates has returned and nothing else has run yet
Detected == pc = "remove" /\ args.duplicates

\* C3: scanned, readable files of identical content are in the same
\* duplicate group, and every group has at least 2 entries, all of one size
\* and one digest.
C3_DuplicateGroups ==
    Detected =>
      /\ \A f, g \in Scanned(fs) :
            (f # g /\ Readable(fs, f) /\ Readable(fs, g) /\ fs[f].content = fs[g].content)
               => \E i \in 1..Len(duplicates) : {f, g} \subseteq Range(duplicates[i].paths)
      /\ \A i \in 1..Len(duplicates) :
            /\ Len(duplicates[i].paths) >= 2
            /\ \A p, q \in Range(duplicates[i].paths) :
                  /\ Len(fs[p].content) = Len(fs[q].content)
                  /\ compute_hash(fs, p) = duplicates[i].hash

\* a group was found next to a file of the same size and other content,
\* which the size partition alone would not have told apart
C3_Witness ==
    /\ Detected
    /\ Len(duplicates) >= 1
    /\ \E q \in Scanned(fs) : \E m \in Range(duplicates[1].paths) :
          /\ Len(fs[q].content) = Len(fs[m].content)
          /\ fs[q].content # fs[m].content

\* C4: after organize has run with move and without dry_run, a second run
\* with move on the resulting tree emits only skip_same actions and leaves
\* the filesystem unchanged.
C4_OrganizeIdempotent ==
    (Organized /\ args.move /\ ~args.dry_run) =>
      \A walk \in os_walk(fs) :
        LET r == organize_files(fs, dirs, scan_files(walk, TRUE, args.ignore),
                                <<>>, FALSE, TRUE)
        IN /\ ~r.raised
           /\ \A o \in Range(r.ops) : o.action = "skip_same"
           /\ r.fs = fs
           /\ r.dirs = dirs

\* the first run moved a file and a second run would emit a skip_same
C4_Witness ==
    /\ Organized /\ args.move /\ ~args.dry_run
    /\ \E o \in Range(ops) : o.action = "move"
    /\ \E walk \in os_walk(fs) :
          organize_files(fs, dirs, scan_files(walk, TRUE, args.ignore),
                         <<>>, FALSE, TRUE).ops # <<>>

\* the k-th numbered candidate for f: stem_k.ext in the category folder
Candidate(f, k) ==
    [dir |-> <<Category(f)>>,
     name |-> [base |-> f.name.base, nums |-> f.name.nums \o <<k>>, ext |-> f.name.ext]]

\* stem_k.ext ends the search on the tree fsys
Settles(fsys, f, k) ==
    \/ Candidate(f, k) \notin DOMAIN fsys
    \/ fsys[Candidate(f, k)].content = fsys[f].content

\* C5: when category/filename exists with other content, the destination
\* emitted is stem_k.ext for the smallest k >= 1 such that stem_k.ext does
\* not exist (move or copy) or holds the content of the source (skip_same).
C5_CollisionNumbering ==
    Organized =>
      \A i \in 1..Len(files) :
        LET f == files[i]
            pre == Before(i).fs
            d0 == [dir |-> <<Category(f)>>, name |-> f.name]
        IN (~AlreadyOrganized(f) /\ d0 \in DOMAIN pre /\ pre[d0].content # pre[f].content)
           => \E k \in 1..(Cardinality(DOMAIN pre) + 1) :
                 /\ Settles(pre, f, k)
                 /\ \A j \in 1..(k - 1) : ~Settles(pre, f, j)
                 /\ \E o \in Range(ops) :
                       /\ o.src = f
                       /\ o.dest = Candidate(f, k)
                       /\ (o.action = "skip_same") = (Candidate(f, k) \in DOMAIN pre)
                       /\ o.action \in {"skip_same", IF args.move THEN "move" ELSE "copy"}
                 /\ Cardinality({n \in 1..Len(ops) : ops[n].src = f}) = 1

\* a file was sent to stem_2.ext
C5_Witness ==
    /\ Organized
    /\ \E o \in Range(ops) : o.dest.name.nums = o.src.name.nums \o <<2>>

IsMoveInto(o, p, folder) ==
    o = [action |-> "move", src |-> p, dest |-> [dir |-> folder, name |-> p.name]]

\* C6 as stated: on the fixture with move, organize returns a move of a.txt
\* and of c.txt into txt/ and a skip_same for b.txt.
C6_FixtureAsStated ==
    (Organized /\ fs0 = Fixture /\ args.move /\ args.ignore = {}) =>
      /\ \A p \in DOMAIN Fixture :
            p.name.base \in {"a", "c"} => \E o \in Range(ops) : IsMoveInto(o, p, <<"txt">>)
      /\ \E o \in Range(ops) : o.action = "skip_same" /\ o.src.name.base = "b"

\* C6 amended: on the fixture with move, organize returns exactly one action
\* per file, a move of a.txt, b.txt and c.txt into txt/ under their own names.
C6_FixtureMovesAll ==
    (Organized /\ fs0 = Fixture /\ args.move /\ args.ignore = {}) =>
      /\ Len(ops) = 3
      /\ \A p \in DOMAIN Fixture : \E o \in Range(ops) : IsMoveInto(o, p, <<"txt">>)

\* organize has run on the fixture with move
C6_Witness ==
    Organized /\ fs0 = Fixture /\ args.move /\ ~args.dry_run /\ args.ignore = {} /\ Len(ops) = 3

\* remove_duplicates has returned and nothing else has run yet
Removed == pc = "report" /\ args.remove_duplicates

\* the records remove_duplicates returns for the groups found, under keep
RecordsUnder(keep) == remove_duplicates(fs0, duplicates, keep, args.dry_run).removed

\* the records rem treat the group g as the rule keep demands
GroupRule(rem, g, keep) ==
    LET recs == {n \in 1..Len(rem) : rem[n].removed \in Range(g.paths)}
    IN \E k \in Range(g.paths) :
          /\ \A n \in recs : rem[n].kept = k /\ rem[n].hash = g.hash
          /\ {rem[n].removed : n \in recs} = Range(g.paths) \ {k}
          /\ Cardinality(recs) = Len(g.paths) - 1
          /\ keep \in {"first", "largest"} => \A p \in Range(g.paths) : fs0[k].mtime <= fs0[p].mtime
          /\ keep = "latest" => \A p \in Range(g.paths) : fs0[k].mtime >= fs0[p].mtime

\* C7: keep=first keeps an entry of earliest modification time, keep=latest
\* one of latest modification time, keep=largest gives the records of
\* keep=first; a group of n entries yields n-1 records, one per entry other
\* than the keeper, all naming the same kept path.
C7_RetentionRule ==
    Removed =>
      /\ removed = RecordsUnder(args.keep)
      /\ \A keep \in KeepRules :
            LET rem == RecordsUnder(keep)
            IN /\ \A i \in 1..Len(duplicates) : GroupRule(rem, duplicates[i], keep)
               /\ \A n \in 1..Len(rem) :
                     \E i \in 1..Len(duplicates) : rem[n].removed \in Range(duplicates[i].paths)
      /\ RecordsUnder("largest") = RecordsUnder("first")

\* a group of 3 files of distinct modification times was reduced under
\* keep=latest
C7_Witness ==
    /\ Removed /\ args.keep = "latest" /\ ~args.dry_run
    /\ \E i \in 1..Len(duplicates) :
          /\ Len(duplicates[i].paths) = 3
          /\ \A p, q \in Range(duplicates[i].paths) : p # q => fs0[p].mtime # fs0[q].mtime
    /\ Len(removed) = 2

\* C8: with recursive unset (--no-recursive) no file of a subfolder of root is
\* the source of an organize action, a member of a duplicate group, or a
\* removed or kept path.
C8_NonRecursiveDirectChildren ==
    ~args.recursive =>
      /\ \A o \in Range(ops) : o.src.dir = <<>>
      /\ \A g \in Range(duplicates) : \A p \in Range(g.paths) : p.dir = <<>>
      /\ \A r \in Range(removed) : r.removed.dir = <<>> /\ r.kept.dir = <<>>

\* C9: organize emits no action for a scanned file of at least two segments
\* whose first segment equals its own category (lower-cased extension, or
\* no_ext for a file without extension).
C9_NoActionInCategoryFolder ==
    Organized =>
      \A f \in Range(files) :
        (Parts(f) >= 2 /\ f.dir[1] = Category(f)) => ~(\E o \in Range(ops) : o.src = f)

\* C10: a move or copy is executed only onto a path that does not exist when
\* it is executed and changes no other file, and every content of the tree
\* before the run is still present after it.
C10_NoOverwrite ==
    Organized =>
      /\ \A i \in 1..Len(files) :
           LET pre == Before(i)
               post == Before(i + 1)
           IN (~args.dry_run /\ Len(post.ops) > Len(pre.ops)
                 /\ post.ops[Len(post.ops)].action # "skip_same")
              => LET dest == post.ops[Len(post.ops)].dest
                 IN /\ dest \notin DOMAIN pre.fs
                    /\ dest \in DOMAIN post.fs
                    /\ post.fs[dest].content = pre.fs[files[i]].content
                    /\ \A p \in DOMAIN pre.fs \ {files[i]} :
                          p \in DOMAIN post.fs /\ post.fs[p] = pre.fs[p]
      /\ Before(Len(files) + 1) = [fs |-> fs, dirs |-> dirs, ops |-> ops, raised |-> FALSE]
      /\ ContentsOf(fs0) \subseteq ContentsOf(fs)

\* a file was moved or copied to a numbered name because its name was taken
C10_Witness ==
    /\ Organized /\ ~args.dry_run
    /\ \E o \in Range(ops) :
          /\ o.action # "skip_same"
          /\ o.dest.name # o.src.name
          /\ o.dest \in DOMAIN fs
          /\ [dir |-> o.dest.dir, name |-> o.src.name] \in DOMAIN fs

====
